---- MODULE Spec2Model ----
(***************************************************************************)
(* GoogleSearchTool (custom_components/llm_intents/GoogleSearch.py): one   *)
(* tool call reads the configuration, looks the (model, query) up in the   *)
(* cache, on a miss posts to the Gemini endpoint, parses the response,     *)
(* stores the summary and returns it wrapped with response_instruction.    *)
(*                                                                         *)
(* Python values are modelled as follows.  A dict is a TLA+ record whose   *)
(* DOMAIN is the dict's key set (results, cache values), or, for the JSON  *)
(* the API sends, a record of presence flags and values.  None is the      *)
(* string "None".  An exception is a record [ok |-> FALSE, exc |-> str(e)].*)
(* asyncio runs one coroutine at a time, so everything between two awaits  *)
(* is one action.                                                          *)
(***************************************************************************)
EXTENDS Integers, Sequences, FiniteSets, TLC

VARIABLES inv, cache, obs

vars == <<inv, cache, obs>>

(***************************************************************************)
(* Bounds of the model.                                                    *)
(***************************************************************************)
\* concurrent invocations of async_call the host runtime has in flight
NumInv == 2
\* longest groundingAttributions list a response carries (ParseSpec)
MaxAttrs == 5

Procs == 1..NumInv

(***************************************************************************)
(* Program constants.                                                      *)
(***************************************************************************)
\* sources[:3]
MaxSources == 3
\* resp.status != 200
HTTP_OK == 200

None == "None"
DefaultModel == "gemini-2.0-flash-exp"
response_instruction == "response_instruction"
\* __name__, the cache namespace
Namespace == "custom_components.llm_intents.GoogleSearch"

Min(a, b) == IF a < b THEN a ELSE b

(***************************************************************************)
(* Outcome of a piece of straight-line Python: a value or an exception.    *)
(***************************************************************************)
Ok(v) == [ok |-> TRUE, val |-> v, exc |-> None]
Raise(e) == [ok |-> FALSE, val |-> None, exc |-> e]

(***************************************************************************)
(* The JSON document of a 200 response, as far as async_call reads it.     *)
(*   data      = {"candidates": [...]} or without the key                  *)
(*   candidate = {"content": {"parts": [{"text": ..}]},                    *)
(*                "groundingMetadata": {"groundingAttributions": [...]}}   *)
(*   attr      = {"web": {"title": .., "uri": ..}}, or not a dict at all   *)
(* has* flags say whether the key is in the dict.                          *)
(***************************************************************************)
NoWeb == [title |-> None, uri |-> None, other |-> FALSE]

\* an attribution that is no JSON object (a string, a number, null)
AttrMalformed == [dict |-> FALSE, hasWeb |-> FALSE, web |-> NoWeb]
\* {} or {"segment": ...}: no "web" key
AttrNoWeb == [dict |-> TRUE, hasWeb |-> FALSE, web |-> NoWeb]
\* {"web": {}}
AttrEmptyWeb == [dict |-> TRUE, hasWeb |-> TRUE, web |-> NoWeb]
\* {"web": {"title": "T", "uri": "U"}}
AttrFull == [dict |-> TRUE, hasWeb |-> TRUE,
             web |-> [title |-> "T", uri |-> "U", other |-> FALSE]]
\* {"web": {"uri": "V"}}
AttrNoTitle == [dict |-> TRUE, hasWeb |-> TRUE,
                web |-> [title |-> None, uri |-> "V", other |-> FALSE]]
\* {"web": {"title": "W"}}
AttrNoUri == [dict |-> TRUE, hasWeb |-> TRUE,
              web |-> [title |-> "W", uri |-> None, other |-> FALSE]]

AttrKinds == {AttrMalformed, AttrNoWeb, AttrEmptyWeb, AttrFull, AttrNoTitle, AttrNoUri}

SeqsUpTo(S, n) == UNION {[1..k -> S] : k \in 0..n}

\* the "parts" list of a content object: only parts[0] is read
PartNoText == [hasText |-> FALSE, text |-> ""]
PartText(t) == [hasText |-> TRUE, text |-> t]

ContentAbsent == [has |-> FALSE, hasParts |-> FALSE, parts |-> <<>>]
ContentNoParts == [has |-> TRUE, hasParts |-> FALSE, parts |-> <<>>]
ContentParts(ps) == [has |-> TRUE, hasParts |-> TRUE, parts |-> ps]

MetaAbsent == [has |-> FALSE, hasAttrs |-> FALSE, attrs |-> <<>>]
MetaNoAttrs == [has |-> TRUE, hasAttrs |-> FALSE, attrs |-> <<>>]
MetaAttrs(as) == [has |-> TRUE, hasAttrs |-> TRUE, attrs |-> as]

Candidate(c, m) == [content |-> c, meta |-> m]

DataNoCandidates == [hasCandidates |-> FALSE, candidates |-> <<>>]
DataCandidates(cs) == [hasCandidates |-> TRUE, candidates |-> cs]

(***************************************************************************)
(* Results.  A result is the returned dict: its DOMAIN is its key set.     *)
(* A message built by an f-string is the sequence of its pieces.           *)
(***************************************************************************)
\* a wrap_response that returns the response as it got it
wrap_response_Forgets(response) == response

\* wrap_response: response["instruction"] = self.response_instruction
wrap_response(response) ==
    [k \in DOMAIN response \cup {"instruction"} |->
        IF k = "instruction" THEN response_instruction ELSE response[k]]

\* `if api_key is None`: an empty key passes
Falsy_NoneOnly(v) == v = None

\* `not api_key`: None (the key is not configured) and "" are falsy
Falsy(v) == v \in {None, ""}

KeyMissingError == [error |-> <<"Google Search API key not configured">>]

\* the upstream body put into the message
StatusError_WithBody(status, text) ==
    [error |-> <<"Search error: status ", ToString(status), " - ", text>>]

\* {"error": f"Search error: status {resp.status}"}; text is only logged
StatusError(status, text) == [error |-> <<"Search error: status ", ToString(status)>>]

\* the handler falls back to the no-information text next to the message
ExceptionError_WithResults(e) ==
    [error |-> <<"An error occurred during search: ", e>>,
     results |-> "No information found."]

\* {"error": f"An error occurred during search: {e!s}"}
ExceptionError(e) == [error |-> <<"An error occurred during search: ", e>>]

NoCandidatesResult == [results |-> "Informatsiya ne naydena."]
NoInformationResult == [results |-> "No information found."]

(***************************************************************************)
(* Parsing, lines 114-144.                                                 *)
(***************************************************************************)
\* candidate.get("content", {}).get("parts", [{}])[0].get("text", "")
ExtractContent(candidate) ==
    LET content == IF candidate.content.has THEN candidate.content ELSE ContentAbsent
        parts == IF content.hasParts THEN content.parts ELSE <<PartNoText>>
    IN  IF parts = <<>>
        THEN Raise("list index out of range")
        ELSE IF parts[1].hasText THEN Ok(parts[1].text) ELSE Ok("")

\* `if web_source:` a dict is truthy when it has a key
WebTruthy(web_source) ==
    web_source.title # None \/ web_source.uri # None \/ web_source.other

\* {"title": web_source.get("title"), "url": web_source.get("uri")}
Citation(web_source) == [title |-> web_source.title, url |-> web_source.uri]

\* for attr in attributions: ... sources.append(...)
RECURSIVE ExtractSources(_, _)
ExtractSources(attributions, sources) ==
    IF attributions = <<>>
    THEN Ok(sources)
    ELSE LET attr == Head(attributions)
             web_source == IF attr.hasWeb THEN attr.web ELSE NoWeb
         IN  IF ~attr.dict
             THEN Raise("object has no attribute 'get'")
             ELSE IF WebTruthy(web_source)
                  THEN ExtractSources(Tail(attributions),
                                      Append(sources, Citation(web_source)))
                  ELSE ExtractSources(Tail(attributions), sources)

\* metadata.get("groundingAttributions", []) of candidate.get("groundingMetadata", {})
Attributions(candidate) ==
    LET metadata == IF candidate.meta.has THEN candidate.meta ELSE MetaAbsent
    IN  IF metadata.hasAttrs THEN metadata.attrs ELSE <<>>

\* `if content is None and not sources`: an empty text is let through
EmptyResult_NoneOnly(content, sources) == content = None /\ sources = <<>>

\* `if not content and not sources`
EmptyResult(content, sources) == content = "" /\ sources = <<>>

\* sources[-3:]: the last three
BuildResponse_KeepsLast(content, sources) ==
    [answer_summary |-> content,
     sources |-> SubSeq(sources, Len(sources) - Min(Len(sources), MaxSources) + 1,
                        Len(sources))]

\* "sources": sources, without the slice
BuildResponse_KeepsAll(content, sources) ==
    [answer_summary |-> content, sources |-> sources]

\* {"answer_summary": content, "sources": sources[:3]}
BuildResponse(content, sources) ==
    [answer_summary |-> content,
     sources |-> SubSeq(sources, 1, Min(Len(sources), MaxSources))]

NoResponse == [none |-> TRUE]

\* wrap_response(response) before cache.set: the dict stored has the instruction
WrapThenStore(response) ==
    [stored |-> wrap_response(response), ret |-> wrap_response(response)]

\* cache.set(__name__, cache_params, content): the text is stored, the
\* citations are not
StoreTextOnly(response) ==
    [stored |-> [answer_summary |-> response.answer_summary],
     ret |-> wrap_response(response)]

\* cache.set(__name__, cache_params, response); return self.wrap_response(response)
\* the value is serialised by set, before wrap_response adds the instruction
StoreThenWrap(response) == [stored |-> response, ret |-> wrap_response(response)]

(***************************************************************************)
(* What lines 114-147 do with the JSON document: raise (exc), return       *)
(* without storing, or store `response` and return it wrapped.             *)
(***************************************************************************)
\* cache.set on every path that raised nothing: the no-information objects
\* are stored too
Parsed_StoresAll(exc, ret, store, response) ==
    [exc |-> exc, ret |-> ret, store |-> exc = None,
     response |-> IF store THEN response ELSE ret]

Parsed(exc, ret, store, response) ==
    [exc |-> exc, ret |-> ret, store |-> store, response |-> response]

ParseResponse(data) ==
    LET candidates == IF data.hasCandidates THEN data.candidates ELSE <<>>
    IN  IF candidates = <<>>
        THEN Parsed(None, NoCandidatesResult, FALSE, NoResponse)
        ELSE LET candidate == candidates[1]
                 content == ExtractContent(candidate)
                 sources == ExtractSources(Attributions(candidate), <<>>)
             IN  IF ~content.ok
                 THEN Parsed(content.exc, NoResponse, FALSE, NoResponse)
                 ELSE IF ~sources.ok
                 THEN Parsed(sources.exc, NoResponse, FALSE, NoResponse)
                 ELSE IF EmptyResult(content.val, sources.val)
                 THEN Parsed(None, NoInformationResult, FALSE, NoResponse)
                 ELSE LET response == BuildResponse(content.val, sources.val)
                          done == StoreThenWrap(response)
                      IN  Parsed(None, done.ret, TRUE, done.stored)

(***************************************************************************)
(* The cache (.cache.SQLiteCache): a persistent key-value store.  get      *)
(* gives the stored value or nothing; a storage error is swallowed inside  *)
(* (get gives nothing, set stores nothing).  set overwrites.               *)
(***************************************************************************)
CacheAbsent == [absent |-> TRUE]

\* cache_params = {"model": model}: the query is left out of the parameters
cache_params_ModelOnly(model, query) == << <<"model", model>> >>

\* cache_params = {"model": model, "query": query}, in insertion order
cache_params(model, query) == <<(<<"model", model>>), (<<"query", query>>)>>

\* the parameters serialised as inserted, without canonical order
deriveKey_AsInserted(namespace, params) == <<namespace, params>>

\* the key is the namespace with the parameters as a mapping: the order in
\* which the parameters were inserted is not part of it
deriveKey(namespace, params) ==
    <<namespace,
      [name \in {params[j][1] : j \in DOMAIN params} |->
          params[CHOOSE j \in DOMAIN params : params[j][1] = name][2]]>>

CacheGet(store, namespace, params, storageOk) ==
    IF storageOk THEN store[deriveKey(namespace, params)] ELSE CacheAbsent

CacheSet(store, namespace, params, value, storageOk) ==
    IF storageOk
    THEN [store EXCEPT ![deriveKey(namespace, params)] = value]
    ELSE store

\* a hit test that also wants a summary text
Truthy_NeedsSummary(cached_response) ==
    /\ cached_response # CacheAbsent
    /\ DOMAIN cached_response # {}
    /\ cached_response.answer_summary # ""

\* `if cached_response != {}:` the None of a miss passes for a hit
Truthy_NotEmptyDict(cached_response) == DOMAIN cached_response # {}

\* `if cached_response:` None and {} are falsy
Truthy(cached_response) ==
    cached_response # CacheAbsent /\ DOMAIN cached_response # {}

(***************************************************************************)
(* Inputs of the model.                                                    *)
(***************************************************************************)
\* a configuration dict; None: the key is not in it
Cfg(api_key, model) == [api_key |-> api_key, model |-> model]

\* {**config_data, **entry.options}
MergeConfig(config_data, options) ==
    [api_key |-> IF options.api_key # None THEN options.api_key
                 ELSE config_data.api_key,
     model |-> IF options.model # None THEN options.model ELSE config_data.model]

\* hass.data[DOMAIN].get("config", {})
DataCfgs == {Cfg(None, None), Cfg("k", None)}
\* hass.config_entries.async_entries(DOMAIN): no entry, or one with its options
EntryLists == {<<>>} \cup {<<Cfg(a, m)>> : a \in {None, "", "k"}, m \in {None, "m2"}}
Models == {DefaultModel, "m2"}
Queries == {"q1", "q2"}
\* the queries of the concurrent specification
SpecQueries == {"q1"}

CacheKeys == {deriveKey(Namespace, cache_params(m, q)) : m \in Models, q \in Queries}

Statuses == {HTTP_OK, 404, 500}
Bodies == {"body1", "body2"}
\* str(e) of what session.post raises: a timeout, a connection error
NetErrors == {"timeout", "cannot connect to host"}
\* str(e) of what resp.json() raises on a body that is no JSON
JsonErrors == {"malformed JSON"}

\* the documents of the concurrent specification
CandText(t) == Candidate(ContentParts(<<PartText(t)>>), MetaAbsent)
SmallData ==
    { DataCandidates(<<>>),
      DataCandidates(<<CandText("")>>),
      DataCandidates(<<CandText("t1")>>),
      DataCandidates(<<Candidate(ContentAbsent, MetaAttrs(<<AttrFull>>))>>),
      DataCandidates(<<Candidate(ContentParts(<<>>), MetaNoAttrs)>>) }

\* the documents of the parsing specification: every first candidate
RichContents ==
    {ContentAbsent, ContentNoParts, ContentParts(<<>>),
     ContentParts(<<PartNoText>>), ContentParts(<<PartText("")>>),
     ContentParts(<<PartText("t1")>>)}
RichMetas ==
    {MetaAbsent, MetaNoAttrs} \cup {MetaAttrs(as) : as \in SeqsUpTo(AttrKinds, MaxAttrs)}
ShortMetas ==
    {MetaAbsent, MetaNoAttrs} \cup {MetaAttrs(as) : as \in SeqsUpTo(AttrKinds, 1)}
RichData ==
    {DataNoCandidates, DataCandidates(<<>>)}
    \cup {DataCandidates(<<Candidate(c, m)>>) : c \in RichContents, m \in ShortMetas}
    \cup {DataCandidates(<<Candidate(c, m)>>) :
             c \in {ContentAbsent, ContentParts(<<PartText("t1")>>)}, m \in RichMetas}

(***************************************************************************)
(* State.                                                                  *)
(* inv[i] is the frame of invocation i of async_call: its position (pc),   *)
(* its locals, and a record of what it did so far: http, gets, sets count  *)
(* its requests, cache lookups and cache writes, trace lists its steps.    *)
(*   pc: idle -> post (awaiting session.post) -> text (awaiting            *)
(*       resp.text()) or json (awaiting resp.json()) -> idle               *)
(* cache is the store.                                                     *)
(* obs is the latest step of an invocation as its caller and the           *)
(* collaborators saw it: the frame after the step, with pc = "done" when   *)
(* it returned result, "raised" when exception exc left async_call,        *)
(* "cancelled" when the task was cancelled at an await; found is what the  *)
(* store held under the invocation's key when the step began, storageOk    *)
(* whether the storage worked in the step, text and data what the response *)
(* carried.                                                                *)
(***************************************************************************)
NoResult == [pending |-> TRUE]

IdleInv ==
    [pc |-> "idle", query |-> None, api_key |-> None, model |-> None,
     status |-> 0, http |-> 0, gets |-> 0, sets |-> 0, trace |-> <<>>]

NoObs ==
    [id |-> 0, frame |-> IdleInv, result |-> NoResult, exc |-> None,
     looked |-> FALSE, found |-> CacheAbsent, cached_response |-> CacheAbsent,
     storageOk |-> TRUE, text |-> None, parsed |-> FALSE, data |-> DataCandidates(<<>>)]

Init ==
    /\ inv = [i \in Procs |-> IdleInv]
    /\ cache = [k \in CacheKeys |-> CacheAbsent]
    /\ obs = NoObs

Step(r, steps) == [r EXCEPT !.trace = r.trace \o steps]

\* the frame is left: the invocation is over
Leave(i, how, r, o) ==
    /\ inv' = [inv EXCEPT ![i] = IdleInv]
    /\ obs' = [o EXCEPT !.id = i, !.frame = [r EXCEPT !.pc = how]]

\* `return result`
Return(i, r, result, o) ==
    Leave(i, "done", Step(r, <<"return">>), [o EXCEPT !.result = result])

\* an exception leaves async_call
Propagate(i, r, e, o) == Leave(i, "raised", r, [o EXCEPT !.exc = e])

\* the coroutine suspends at an await
Await(i, r, o) ==
    /\ inv' = [inv EXCEPT ![i] = r]
    /\ obs' = [o EXCEPT !.id = i, !.frame = r]

(***************************************************************************)
(* async_call up to its first await, lines 66-105.  tool_args holds the    *)
(* query: the schema `parameters` requires it.                             *)
(***************************************************************************)
\* lines 96-105: the lookup, then the wrapped hit or the request
Lookup(i, r, storageOk) ==
    LET params == cache_params(r.model, r.query)
        cached_response == CacheGet(cache, Namespace, params, storageOk)
        looked == Step([r EXCEPT !.gets = r.gets + 1], <<"cache_get">>)
        o == [NoObs EXCEPT !.looked = TRUE,
                           !.found = cache[deriveKey(Namespace, params)],
                           !.cached_response = cached_response,
                           !.storageOk = storageOk]
    IN  IF Truthy(cached_response)
        THEN Return(i, Step(looked, <<"wrap">>), wrap_response(cached_response), o)
        ELSE Await(i, Step([looked EXCEPT !.pc = "post", !.http = looked.http + 1],
                           <<"post">>), o)

AsyncCallStart(i, data_config, entries, query, storageOk) ==
    /\ inv[i].pc = "idle"
    /\ LET r == Step(inv[i], <<"config">>)
       IN  IF entries = <<>>
           \* next(iter([])): StopIteration, outside the try
           THEN Propagate(i, r, "StopIteration", NoObs)
           ELSE LET config_data == MergeConfig(data_config, entries[1])
                    read == Step([r EXCEPT
                               !.query = query,
                               !.api_key = config_data.api_key,
                               !.model = IF config_data.model = None
                                         THEN DefaultModel ELSE config_data.model],
                              <<"key_check">>)
                IN  IF Falsy(read.api_key)
                    THEN Return(i, read, KeyMissingError,
                                [NoObs EXCEPT !.found =
                                    cache[deriveKey(Namespace,
                                            cache_params(read.model, read.query))]])
                    ELSE Lookup(i, read, storageOk)
    /\ UNCHANGED cache

(***************************************************************************)
(* session.post answers or fails, lines 105-111.                           *)
(***************************************************************************)
\* a failed request is sent once more before the error is reported
PostFails_Retries(i, e) ==
    /\ inv[i].pc = "post"
    /\ IF inv[i].http < 2
       THEN Await(i, Step([inv[i] EXCEPT !.http = inv[i].http + 1], <<"post">>), NoObs)
       ELSE Return(i, Step(inv[i], <<"except">>), ExceptionError(e), NoObs)
    /\ UNCHANGED cache

PostFails(i, e) ==
    /\ inv[i].pc = "post"
    /\ Return(i, Step(inv[i], <<"except">>), ExceptionError(e), NoObs)
    /\ UNCHANGED cache

PostResponds(i, status) ==
    /\ inv[i].pc = "post"
    /\ Await(i, Step([inv[i] EXCEPT !.status = status,
                                    !.pc = IF status # HTTP_OK THEN "text" ELSE "json"],
                     <<"status">>), NoObs)
    /\ UNCHANGED cache

\* text = await resp.text(); the body is logged
TextRead(i, text) ==
    /\ inv[i].pc = "text"
    /\ Return(i, Step(inv[i], <<"log_body">>), StatusError(inv[i].status, text),
              [NoObs EXCEPT !.text = text])
    /\ UNCHANGED cache

\* data = await resp.json() raises
JsonFails(i, e) ==
    /\ inv[i].pc = "json"
    /\ Return(i, Step(inv[i], <<"except">>), ExceptionError(e), NoObs)
    /\ UNCHANGED cache

(***************************************************************************)
(* data = await resp.json(), then lines 114-151 without an await.          *)
(***************************************************************************)
JsonRead(i, data, storageOk) ==
    /\ inv[i].pc = "json"
    /\ LET r == Step(inv[i], <<"parse">>)
           o == [NoObs EXCEPT !.parsed = TRUE, !.data = data,
                              !.found = cache[deriveKey(Namespace,
                                                cache_params(r.model, r.query))]]
           p == ParseResponse(data)
       IN  IF p.exc # None
           THEN /\ Return(i, Step(r, <<"except">>), ExceptionError(p.exc), o)
                /\ UNCHANGED cache
           ELSE IF ~p.store
           THEN /\ Return(i, r, p.ret, o)
                /\ UNCHANGED cache
           ELSE /\ cache' = CacheSet(cache, Namespace,
                                     cache_params(r.model, r.query),
                                     p.response, storageOk)
                /\ Return(i, Step([r EXCEPT !.sets = r.sets + 1],
                                  <<"cache_set", "wrap">>),
                          p.ret, [o EXCEPT !.storageOk = storageOk])

\* the host cancels the task while it awaits: CancelledError is no Exception,
\* `except Exception` lets it through
Cancel(i) ==
    /\ inv[i].pc \in {"post", "text", "json"}
    /\ Leave(i, "cancelled", inv[i], NoObs)
    /\ UNCHANGED cache

\* the storage engine drops an entry (expiry, eviction)
Evict(k) ==
    /\ cache[k] # CacheAbsent
    /\ cache' = [cache EXCEPT ![k] = CacheAbsent]
    /\ UNCHANGED <<inv, obs>>

Next ==
    \/ \E i \in Procs, dc \in DataCfgs, es \in EntryLists, q \in SpecQueries,
          ok \in BOOLEAN : AsyncCallStart(i, dc, es, q, ok)
    \/ \E i \in Procs, e \in NetErrors : PostFails(i, e)
    \/ \E i \in Procs, st \in Statuses : PostResponds(i, st)
    \/ \E i \in Procs, b \in Bodies : TextRead(i, b)
    \/ \E i \in Procs, e \in JsonErrors : JsonFails(i, e)
    \/ \E i \in Procs, d \in SmallData, ok \in BOOLEAN : JsonRead(i, d, ok)
    \/ \E i \in Procs : Cancel(i)
    \/ \E k \in CacheKeys : Evict(k)

Spec == Init /\ [][Next]_vars

(***************************************************************************)
(* Properties of the concurrent specification Spec.                        *)
(***************************************************************************)
Keys(r) == DOMAIN r
IsSummary(r) == "answer_summary" \in Keys(r)
IsNoResults(r) == "results" \in Keys(r)
IsError(r) == "error" \in Keys(r)
Done == obs.frame.pc = "done"
KeyRead == \E n \in DOMAIN obs.frame.trace : obs.frame.trace[n] = "key_check"
KeyOf(model, query) == deriveKey(Namespace, cache_params(model, query))

\* C1: every invocation returns a result; no exception reaches the caller,
\* whatever the configuration (no config entry included).
C1_NeverRaises == obs.frame.pc # "raised"

\* C2: an invocation that reads an absent or empty API key returns an
\* {error} object at once: it made no HTTP request, no cache lookup and no
\* cache write.
C2_MissingKeyShortCircuit ==
    (KeyRead /\ obs.frame.api_key \in {None, ""}) =>
        /\ Done
        /\ Keys(obs.result) = {"error"}
        /\ obs.frame.http = 0 /\ obs.frame.gets = 0 /\ obs.frame.sets = 0
        /\ ~obs.looked
        /\ obs.frame.trace = <<"config", "key_check", "return">>

\* an empty key returned the error while the store held an entry for the
\* invocation's (model, query), which stayed untouched
C2_Witness ==
    /\ Done /\ obs.frame.api_key = ""
    /\ obs.result = KeyMissingError
    /\ obs.found # CacheAbsent

C4_Original ==
    Done =>
        /\ (IsSummary(obs.result) \/ IsNoResults(obs.result)) =>
              ("instruction" \in Keys(obs.result) /\ obs.result.instruction # "")
        /\ IsError(obs.result) => "instruction" \notin Keys(obs.result)

\* C4, amended: every summary return, on a cache hit or a miss, carries the
\* non-empty fixed instruction; no-results and error returns carry none.
C4_Wrapping ==
    Done =>
        /\ IsSummary(obs.result) =>
              /\ Keys(obs.result) = {"answer_summary", "sources", "instruction"}
              /\ obs.result.instruction = response_instruction
              /\ obs.result.instruction # ""
        /\ (IsNoResults(obs.result) \/ IsError(obs.result)) =>
              "instruction" \notin Keys(obs.result)

\* a cache hit returned wrapped
C4_Witness ==
    /\ Done /\ obs.looked /\ obs.found # CacheAbsent
    /\ obs.result = [answer_summary |-> "t1", sources |-> <<>>,
                      instruction |-> response_instruction]

Index(trace, e) == CHOOSE n \in DOMAIN trace : trace[n] = e
Has(trace, e) == \E n \in DOMAIN trace : trace[n] = e

\* C5: no value in the cache has an instruction field; a returned
\* instruction was attached after the lookup and after the store.
C5_InstructionNeverCached ==
    /\ \A k \in CacheKeys :
          cache[k] # CacheAbsent => "instruction" \notin Keys(cache[k])
    /\ (Done /\ "instruction" \in Keys(obs.result)) =>
          LET t == obs.frame.trace
          IN  /\ Has(t, "wrap")
              /\ Index(t, "cache_get") < Index(t, "wrap")
              /\ Has(t, "cache_set") => Index(t, "cache_set") < Index(t, "wrap")

\* a summary was stored and returned with the instruction
C5_Witness ==
    /\ Done /\ obs.frame.sets = 1 /\ obs.storageOk
    /\ "instruction" \in Keys(obs.result)
    /\ cache[KeyOf(obs.frame.model, obs.frame.query)] =
          [answer_summary |-> obs.result.answer_summary,
           sources |-> obs.result.sources]

ParseNext ==
    \/ AsyncCallStart(1, Cfg(None, None), <<Cfg("k", None)>>, "q1", TRUE)
    \/ PostResponds(1, HTTP_OK)
    \/ inv[1].pc = "json" /\ \E d \in RichData : JsonRead(1, d, TRUE)

ParseSpec == Init /\ [][ParseNext]_vars

(***************************************************************************)
(* Properties of the parsing specification ParseSpec.                      *)
(***************************************************************************)
HasCandidate == obs.parsed /\ obs.data.hasCandidates /\ obs.data.candidates # <<>>
FirstCandidate == obs.data.candidates[1]
AttrsOf(c) == IF c.meta.has /\ c.meta.hasAttrs THEN c.meta.attrs ELSE <<>>
HasWebObject(a) == a.dict /\ a.hasWeb
HasNonEmptyWeb(a) ==
    a.dict /\ a.hasWeb /\ (a.web.title # None \/ a.web.uri # None \/ a.web.other)
WellFormed(c) == \A n \in DOMAIN AttrsOf(c) : AttrsOf(c)[n].dict
CitationsOf(as) == [n \in DOMAIN as |-> [title |-> as[n].web.title, url |-> as[n].web.uri]]
FirstN(seq, n) == SubSeq(seq, 1, Min(Len(seq), n))
EmptyPartsList(c) == c.content.has /\ c.content.hasParts /\ c.content.parts = <<>>
TextAbsent(c) ==
    \/ ~c.content.has
    \/ ~c.content.hasParts
    \/ c.content.parts = <<>>
    \/ ~c.content.parts[1].hasText

\* C7, as claimed: the sources of a returned summary are the citations of
\* the first min(n, 3) of the n attributions with a web sub-object, in order.
C7_Original ==
    (Done /\ HasCandidate /\ IsSummary(obs.result)) =>
        obs.result.sources =
            FirstN(CitationsOf(SelectSeq(AttrsOf(FirstCandidate), HasWebObject)), 3)

\* C7, amended: the sources of a returned summary are the citations of the
\* first min(n, 3) of the n attributions with a non-empty web sub-object, in
\* the order of the response; with n >= 1, well-formed attributions and a
\* parts list that is not empty, a summary is returned.
C7_Truncation ==
    LET webs == SelectSeq(AttrsOf(FirstCandidate), HasNonEmptyWeb)
    IN  /\ (Done /\ HasCandidate /\ IsSummary(obs.result)) =>
              /\ obs.result.sources = FirstN(CitationsOf(webs), 3)
              /\ Len(obs.result.sources) = Min(Len(webs), 3)
        /\ (Done /\ HasCandidate /\ WellFormed(FirstCandidate)
               /\ ~EmptyPartsList(FirstCandidate) /\ Len(webs) >= 1) =>
              IsSummary(obs.result)

\* five web attributions gave the first three citations
C7_Witness ==
    /\ Done /\ HasCandidate
    /\ AttrsOf(FirstCandidate) =
          <<AttrFull, AttrNoTitle, AttrNoUri, AttrFull, AttrNoTitle>>
    /\ IsSummary(obs.result)
    /\ obs.result.sources = << [title |-> "T", url |-> "U"],
                               [title |-> None, url |-> "V"],
                               [title |-> "W", url |-> None] >>

\* C8: no attribution entry makes the invocation return an error: one that
\* is malformed or has no web sub-object is skipped.
C8_TolerantCitations ==
    (Done /\ HasCandidate /\ ~EmptyPartsList(FirstCandidate)) =>
        ~IsError(obs.result)

\* C9: a first candidate without primary text (no content, no parts, an
\* empty parts list, a first part without text) gives the empty string and
\* no error.
C9_AbsentTextIsEmpty ==
    (Done /\ HasCandidate /\ TextAbsent(FirstCandidate) /\ WellFormed(FirstCandidate)) =>
        /\ ~IsError(obs.result)
        /\ IsSummary(obs.result) => obs.result.answer_summary = ""

GivesEmptyText(c) ==
    \/ ~c.content.has
    \/ ~c.content.hasParts
    \/ /\ c.content.parts # <<>>
       /\ (~c.content.parts[1].hasText \/ c.content.parts[1].text = "")
GivesNoCitations(c) ==
    \A n \in DOMAIN AttrsOf(c) : AttrsOf(c)[n].dict /\ ~HasNonEmptyWeb(AttrsOf(c)[n])

\* C10: a response without candidates, or whose first candidate gives an
\* empty text and no citation, returns the {results} object; no summary
\* returned, on a miss or on a hit, has both fields empty.
C10_EmptyResultGuard ==
    /\ (Done /\ obs.parsed /\ ~HasCandidate) => Keys(obs.result) = {"results"}
    /\ (Done /\ HasCandidate /\ GivesEmptyText(FirstCandidate)
           /\ GivesNoCitations(FirstCandidate)) => Keys(obs.result) = {"results"}
    /\ (Done /\ IsSummary(obs.result)) =>
          ~(obs.result.answer_summary = "" /\ obs.result.sources = <<>>)

\* an empty text and an attribution whose web sub-object is {}
C10_Witness ==
    /\ Done /\ HasCandidate
    /\ FirstCandidate = Candidate(ContentParts(<<PartText("")>>), MetaAttrs(<<AttrEmptyWeb>>))
    /\ obs.result = NoInformationResult

(***************************************************************************)
(* Further properties of the concurrent specification Spec.                *)
(***************************************************************************)
TextOf(c) == IF TextAbsent(c) THEN "" ELSE c.content.parts[1].text
WebCitations(c) == FirstN(CitationsOf(SelectSeq(AttrsOf(c), HasNonEmptyWeb)), 3)

\* C11: a cache failure is never surfaced.  An invocation whose cache read
\* hits a storage error goes on to the request as on a miss, with no result
\* and no exception; an invocation whose cache write hits a storage error
\* after a non-empty parse returns the wrapped summary and citations of the
\* response, not an error.
C11_CacheFailuresSwallowed ==
    /\ (obs.looked /\ ~obs.storageOk) =>
          /\ obs.frame.pc = "post" /\ obs.frame.http = 1
          /\ obs.result = NoResult /\ obs.exc = None
          /\ obs.frame.trace = <<"config", "key_check", "cache_get", "post">>
    /\ (obs.parsed /\ obs.frame.sets = 1 /\ ~obs.storageOk) =>
          /\ Done
          /\ Keys(obs.result) = {"answer_summary", "sources", "instruction"}
          /\ obs.result.answer_summary = TextOf(FirstCandidate)
          /\ obs.result.sources = WebCitations(FirstCandidate)

\* the write of a parsed summary failed: the summary was returned, the
\* store holds nothing under the key
C11_Witness ==
    /\ Done /\ obs.parsed /\ obs.frame.sets = 1 /\ ~obs.storageOk
    /\ obs.result = [answer_summary |-> "", sources |-> <<[title |-> "T", url |-> "U"]>>,
                      instruction |-> response_instruction]
    /\ cache[KeyOf(obs.frame.model, obs.frame.query)] = CacheAbsent


Unwrapped(result) == [answer_summary |-> result.answer_summary, sources |-> result.sources]
WellFormedResult(result) ==
    \/ /\ Keys(result) = {"answer_summary", "sources", "instruction"}
       /\ Len(result.sources) <= MaxSources
    \/ Keys(result) = {"results"}
    \/ Keys(result) = {"error"}
\* invocation i ends its frame in this step by storing its summary
Stores(i) ==
    /\ inv[i].pc = "json" /\ inv'[i].pc = "idle"
    /\ obs'.id = i /\ obs'.frame.sets = 1 /\ obs'.storageOk

\* C12: with invocations of the same (model, query) in flight together,
\* the last write wins.  Every store of an invocation replaces the entry of
\* its (model, query), whatever it held, by the complete summary the
\* invocation returns, and leaves every other entry as it was; the store
\* changes in no other step of an invocation (the storage engine may drop an
\* entry); every result returned is well-formed.
C12_LastWriteWins ==
    [][ /\ \A i \in Procs : Stores(i) =>
              cache' = [cache EXCEPT ![KeyOf(obs'.frame.model, obs'.frame.query)] =
                                         Unwrapped(obs'.result)]
        /\ (cache' # cache /\ ~\E i \in Procs : Stores(i)) =>
              /\ obs' = obs /\ inv' = inv
              /\ \E k \in CacheKeys : cache' = [cache EXCEPT ![k] = CacheAbsent]
        /\ obs'.frame.pc = "done" => WellFormedResult(obs'.result) ]_vars

\* all have returned; the last one to store missed, requested, and at its
\* write found the entry of another invocation, which it replaced by its
\* own summary
C12_Witness ==
    /\ \A i \in Procs : inv[i].pc = "idle"
    /\ Done /\ obs.frame.sets = 1 /\ obs.storageOk /\ obs.frame.http = 1
    /\ obs.found = [answer_summary |-> "t1", sources |-> <<>>]
    /\ Unwrapped(obs.result) = [answer_summary |-> "", sources |-> <<[title |-> "T", url |-> "U"]>>]
    /\ cache[KeyOf(obs.frame.model, obs.frame.query)] = Unwrapped(obs.result)
    /\ \A k \in CacheKeys : k # KeyOf(obs.frame.model, obs.frame.query) => cache[k] = CacheAbsent


\* C13: every returned object has exactly one shape: the summary keys
\* answer_summary and sources (with the instruction of the wrapping), or
\* results alone, or error alone, on a hit, after a parse and on every
\* failure; the keys of two shapes never come together.
C13_OneShape ==
    Done =>
        LET K == Keys(obs.result)
        IN  /\ \/ K \ {"instruction"} = {"answer_summary", "sources"}
               \/ K = {"results"}
               \/ K = {"error"}
            /\ Cardinality({s \in {{"answer_summary", "sources"}, {"results"}, {"error"}} :
                               s \cap K # {}}) = 1

\* a cache hit on an entry with a citation, returned wrapped
C13_Witness ==
    /\ Done /\ obs.looked /\ obs.frame.http = 0
    /\ obs.found = [answer_summary |-> "", sources |-> <<[title |-> "T", url |-> "U"]>>]
    /\ Keys(obs.result) = {"answer_summary", "sources", "instruction"}


(***************************************************************************)
(* The key specification: invocations with a configured key and a working  *)
(* store, over every (model, query) of Models x Queries.  The endpoint     *)
(* answers 200 with a text that names the model and the query it was asked *)
(* with, so that a stored or returned summary shows which request it came  *)
(* from.                                                                   *)
(***************************************************************************)
KeyEntryLists == {<<Cfg("k", m)>> : m \in {None, "m2"}}

\* the text generated for `query` by `model`
AnswerFor(model, query) ==
    IF model = DefaultModel
    THEN (IF query = "q1" THEN "default on q1" ELSE "default on q2")
    ELSE (IF query = "q1" THEN "m2 on q1" ELSE "m2 on q2")

KeyNext ==
    \/ \E i \in Procs, es \in KeyEntryLists, q \in Queries :
          AsyncCallStart(i, Cfg(None, None), es, q, TRUE)
    \/ \E i \in Procs : PostResponds(i, HTTP_OK)
    \/ \E i \in Procs :
          /\ inv[i].pc = "json"
          /\ JsonRead(i, DataCandidates(<<CandText(AnswerFor(inv[i].model, inv[i].query))>>),
                      TRUE)
    \/ \E k \in CacheKeys : Evict(k)

KeySpec == Init /\ [][KeyNext]_vars

(***************************************************************************)
(* Properties of the key specification KeySpec.                            *)
(***************************************************************************)
\* the parameter mapping `params` with its pairs inserted in every order
Orders(params) ==
    { [j \in DOMAIN params |-> params[f[j]]] :
        f \in {g \in [DOMAIN params -> DOMAIN params] :
                  \A a, b \in DOMAIN params : g[a] = g[b] => a = b} }
ParamMappings == UNION {Orders(cache_params(m, q)) : m \in Models, q \in Queries}
SamePairs(P, Q) == {P[j] : j \in DOMAIN P} = {Q[j] : j \in DOMAIN Q}
\* invocation i runs its lookup in this step
LooksUp(i) == inv[i].pc = "idle" /\ obs' # obs /\ obs'.id = i /\ obs'.looked

\* C14: parameter mappings with the same pairs give the same key, whatever
\* the insertion order; the lookup of an invocation reads, and its store
\* writes, the entry that every insertion order of its (model, query)
\* addresses.
C14_KeyDeterminism ==
    [][ /\ \A P, Q \in ParamMappings :
              SamePairs(P, Q) => deriveKey(Namespace, P) = deriveKey(Namespace, Q)
        /\ \A i \in Procs :
              \A P \in Orders(cache_params(obs'.frame.model, obs'.frame.query)) :
                  /\ LooksUp(i) => obs'.cached_response = cache[deriveKey(Namespace, P)]
                  /\ Stores(i) => cache'[deriveKey(Namespace, P)] = Unwrapped(obs'.result) ]_vars

\* a lookup hit the entry an earlier invocation of the same (model, query)
\* had stored; the two insertion orders of the parameters differ and give
\* one key
C14_Witness ==
    /\ Done /\ obs.looked /\ obs.frame.http = 0
    /\ obs.frame.model = "m2" /\ obs.frame.query = "q2"
    /\ obs.result.answer_summary = "m2 on q2"
    /\ \E P, Q \in Orders(cache_params("m2", "q2")) :
          P # Q /\ deriveKey(Namespace, P) = deriveKey(Namespace, Q)


(***************************************************************************)
(* Properties of Spec, continued.                                          *)
(***************************************************************************)
\* the step is one of an invocation, not of the storage engine
InvocationStep == inv' # inv \/ obs' # obs
\* o is the return of a 200 response parsed to a summary that is not empty
NonEmptyParse(o) ==
    /\ o.frame.pc = "done" /\ o.parsed /\ o.frame.status = HTTP_OK
    /\ o.data.hasCandidates /\ o.data.candidates # <<>>
    /\ IsSummary(o.result)
    /\ ~(o.result.answer_summary = "" /\ o.result.sources = <<>>)

\* C15: an invocation writes the cache only when it has parsed a 200
\* response to a non-empty summary, after the parse and before the return,
\* and then it writes the complete summary under its key; every other step
\* of an invocation (key error, hit, status error, no candidates, empty
\* result, exception, cancellation, suspension) leaves the cache unchanged.
C15_WriteOnlyAfterParse ==
    [][ InvocationStep =>
          LET t == obs'.frame.trace
          IN  /\ Has(t, "cache_set") =>
                    /\ NonEmptyParse(obs') /\ obs'.frame.sets = 1
                    /\ Index(t, "parse") < Index(t, "cache_set")
                    /\ Index(t, "cache_set") < Index(t, "return")
              /\ cache' # cache =>
                    /\ Has(t, "cache_set")
                    /\ cache' = [cache EXCEPT ![KeyOf(obs'.frame.model, obs'.frame.query)] =
                                                 Unwrapped(obs'.result)]
              /\ ~NonEmptyParse(obs') => cache' = cache ]_vars

\* the response was parsed, the summary stored, wrapped and returned, in
\* this order
C15_Witness ==
    /\ Done /\ obs.storageOk
    /\ obs.frame.trace = <<"config", "key_check", "cache_get", "post", "status",
                           "parse", "cache_set", "wrap", "return">>
    /\ cache[KeyOf(obs.frame.model, obs.frame.query)] = Unwrapped(obs.result)


Count(trace, e) == Cardinality({n \in DOMAIN trace : trace[n] = e})

\* C16: an invocation issues at most one HTTP request, and only on its way
\* from the lookup; a request that fails or times out ends the invocation
\* with an {error} result, without another request.
C16_NoRetry ==
    [][ \A i \in Procs :
          /\ inv'[i].http <= 1 /\ Count(inv'[i].trace, "post") = inv'[i].http
          /\ obs'.frame.http <= 1 /\ Count(obs'.frame.trace, "post") = obs'.frame.http
          /\ (inv'[i].pc = "post" /\ inv'[i] # inv[i]) =>
                inv[i].pc = "idle" /\ inv'[i].http = 1
          /\ (inv[i].pc = "post" /\ inv'[i].pc = "idle" /\ obs'.frame.pc = "done") =>
                /\ obs'.id = i
                /\ Keys(obs'.result) = {"error"}
                /\ obs'.frame.http = 1 ]_vars

\* the request timed out: the error of the one attempt was returned
C16_Witness ==
    /\ Done /\ obs.frame.http = 1
    /\ obs.frame.trace = <<"config", "key_check", "cache_get", "post", "except", "return">>
    /\ obs.result = [error |-> <<"An error occurred during search: ", "timeout">>]


(***************************************************************************)
(* The fair specification: the request of line 105 has timeout=15, so the  *)
(* call answers or raises, and the body is read or the read raises: a      *)
(* frame that awaits is resumed.  Cancellation may or may not happen.      *)
(***************************************************************************)
Resumes(i) ==
    \/ \E e \in NetErrors : PostFails(i, e)
    \/ \E st \in Statuses : PostResponds(i, st)
    \/ \E b \in Bodies : TextRead(i, b)
    \/ \E e \in JsonErrors : JsonFails(i, e)
    \/ \E d \in SmallData, ok \in BOOLEAN : JsonRead(i, d, ok)

FairSpec == Spec /\ \A i \in Procs : WF_vars(Resumes(i))

(***************************************************************************)
(* Properties of the fair specification FairSpec.                          *)
(***************************************************************************)
\* invocation i is over with this step
Ends(i) == obs' # obs /\ obs'.id = i /\ inv'[i].pc = "idle"
Started == <<"config", "key_check", "cache_get">>
\* the steps of an invocation that returned, by the way it went
ReturnPaths ==
    { <<"config", "key_check", "return">>,
      Started \o <<"wrap", "return">>,
      Started \o <<"post", "status", "parse", "cache_set", "wrap", "return">>,
      Started \o <<"post", "status", "log_body", "return">>,
      Started \o <<"post", "status", "parse", "return">>,
      Started \o <<"post", "except", "return">>,
      Started \o <<"post", "status", "except", "return">>,
      Started \o <<"post", "status", "parse", "except", "return">> }

\* C17: every invocation ends, and unless it is cancelled it ends with a
\* return, on one of the paths of the state machine: the configuration
\* check, then the hit, or the one request and then success, status error,
\* no information or exception; a frame that awaits is resumed and does not
\* come back to the request.
C17_EventuallyReturns ==
    /\ \A i \in Procs : (inv[i].pc # "idle") ~> (inv[i].pc = "idle")
    /\ [][ \A i \in Procs :
             /\ Ends(i) =>
                   /\ obs'.frame.pc \in {"done", "cancelled"}
                   /\ obs'.frame.pc = "done" => obs'.frame.trace \in ReturnPaths
             /\ inv[i].pc \in {"text", "json"} => inv'[i].pc # "post" ]_vars


(***************************************************************************)
(* Properties of Spec, continued.                                          *)
(***************************************************************************)
\* o is the return of the exception handler of lines 149-151
Failed(o) == o.frame.pc = "done" /\ Has(o.frame.trace, "except")

\* C18: the error returned for an unexpected failure is generic: of two
\* invocations that fail one after the other, whatever the exceptions say,
\* the second returns the error object the first returned.
C18_GenericError ==
    [][ (Failed(obs) /\ Failed(obs')) => obs'.result = obs.result ]_vars


(***************************************************************************)
(* Properties of KeySpec, continued.                                       *)
(***************************************************************************)
\* C19: the cache is partitioned by (model, query).  Different pairs have
\* different keys; an entry holds only a summary that an invocation of the
\* entry's own model and query stored; a hit returns the summary of the
\* invocation's own model and query.
C19_CacheIsolation ==
    /\ \A m1, m2 \in Models, q1, q2 \in Queries :
          KeyOf(m1, q1) = KeyOf(m2, q2) => (m1 = m2 /\ q1 = q2)
    /\ \A m \in Models, q \in Queries :
          cache[KeyOf(m, q)] # CacheAbsent =>
              cache[KeyOf(m, q)].answer_summary = AnswerFor(m, q)
    /\ (Done /\ obs.looked /\ obs.frame.http = 0) =>
          /\ obs.found # CacheAbsent
          /\ obs.result.answer_summary = AnswerFor(obs.frame.model, obs.frame.query)

\* a hit for the default model on q2 while the entries of the same model on
\* q1 and of the other model on q2 are in the store
C19_Witness ==
    /\ Done /\ obs.looked /\ obs.frame.http = 0
    /\ obs.frame.model = DefaultModel /\ obs.frame.query = "q2"
    /\ obs.result.answer_summary = "default on q2"
    /\ cache[KeyOf(DefaultModel, "q1")] # CacheAbsent
    /\ cache[KeyOf("m2", "q2")] # CacheAbsent

(***************************************************************************)
(* Properties of ParseSpec, continued.                                     *)
(***************************************************************************)
\* C20: every value in the cache is a summary {answer_summary, sources}
\* with at most 3 sources, not both fields empty; no {error} and no
\* {results} object is stored; a stored entry passes the hit test and a
\* lookup that finds it returns it without a request.
C20_StoredValues ==
    /\ \A k \in CacheKeys :
          cache[k] # CacheAbsent =>
              /\ Keys(cache[k]) = {"answer_summary", "sources"}
              /\ Len(cache[k].sources) <= MaxSources
              /\ ~(cache[k].answer_summary = "" /\ cache[k].sources = <<>>)
              /\ Truthy(cache[k])
    /\ (obs.looked /\ obs.found # CacheAbsent) =>
          /\ Done /\ obs.frame.http = 0
          /\ Unwrapped(obs.result) = obs.found

\* the entry stored for a response with five web attributions holds three
\* sources and is read back as a hit
C20_Witness ==
    /\ Done /\ obs.looked /\ obs.frame.http = 0
    /\ obs.found # CacheAbsent /\ Len(obs.found.sources) = MaxSources
    /\ obs.found.answer_summary = ""
    /\ cache[KeyOf(obs.frame.model, obs.frame.query)] = obs.found

====
